---------------------------- MODULE Spec2Model ----------------------------
(***************************************************************************)
(* Model of msh's configuration bootstrap, lib/config/config.go:           *)
(* LoadConfig = OsSupported, loadDefault, loadRuntime, conditional Save.   *)
(*                                                                         *)
(* Go strings are sequences of one-character strings, so that len(),       *)
(* strings.ToLower, strings.ReplaceAll and strings.Contains are computed   *)
(* as the code computes them.                                              *)
(***************************************************************************)
EXTENDS Integers, Sequences, FiniteSets, TLC

\* ------------------------------------------------------------------------
\* Bounds of the model
\* ------------------------------------------------------------------------

\* number of times the msh process is started on the same disk
MaxRuns == 2

\* ------------------------------------------------------------------------
\* Strings
\* ------------------------------------------------------------------------

Upper == <<"A","B","C","D","E","F","G","H","I","J","K","L","M",
           "N","O","P","Q","R","S","T","U","V","W","X","Y","Z">>

Lower == <<"a","b","c","d","e","f","g","h","i","j","k","l","m",
           "n","o","p","q","r","s","t","u","v","w","x","y","z">>

HexDigits == <<"0","1","2","3","4","5","6","7","8","9","a","b","c","d","e","f">>

\* strings.ToLower on one character
ToLowerChar(ch) ==
    IF \E i \in 1..Len(Upper) : Upper[i] = ch
    THEN Lower[CHOOSE i \in 1..Len(Upper) : Upper[i] = ch]
    ELSE ch

\* strings.ToLower
ToLower(s) == [i \in 1..Len(s) |-> ToLowerChar(s[i])]

\* strings.HasPrefix
HasPrefix(s, prefix) ==
    /\ Len(prefix) <= Len(s)
    /\ SubSeq(s, 1, Len(prefix)) = prefix

\* strings.Contains
Contains(s, substr) ==
    \E i \in 0..(Len(s) - Len(substr)) : SubSeq(s, i + 1, i + Len(substr)) = substr

\* strings.ReplaceAll for a non-empty old: non-overlapping matches, left to right
RECURSIVE ReplaceAll(_, _, _)
ReplaceAll(s, old, new) ==
    IF Len(s) < Len(old) THEN s
    ELSE IF HasPrefix(s, old)
         THEN new \o ReplaceAll(SubSeq(s, Len(old) + 1, Len(s)), old, new)
         ELSE <<Head(s)>> \o ReplaceAll(Tail(s), old, new)

\* n copies of the character ch
Repeat(ch, n) == [i \in 1..n |-> ch]

\* ------------------------------------------------------------------------
\* Program constants
\* ------------------------------------------------------------------------

\* length of a healthy mshid (hex encoding of a SHA-1 digest)
MshIDLen == 40

TokFileName ==
    <<"<","S","e","r","v","e","r",".","F","i","l","e","N","a","m","e",">">>

TokStartServerParam ==
    <<"<","C","o","m","m","a","n","d","s",".","S","t","a","r","t",
      "S","e","r","v","e","r","P","a","r","a","m",">">>

EulaTrue == <<"e","u","l","a","=","t","r","u","e">>

JavavUnknown == <<"u","n","k","n","o","w","n">>

\* servstats.Stats.Error: nil, or the message of the errco.Error stored there
StatusNil           == "nil"
StatusServerMissing == "specified minecraft server folder/file does not exist"
StatusCouldNotStart == "couldn't start minecraft server to generate eula.txt"
StatusAcceptEula    == "please accept minecraft server eula.txt"
StatusJavaMissing   == "java not installed"
StatusProxyFailed   == "proxy setup failed, check msh logs"

\* what LoadConfig returns: nil or the code of the *errco.Error
ErrNil        == "nil"
ErrOsSupport  == "ERROR_OS_NOT_SUPPORTED"
ErrConfigLoad == "ERROR_CONFIG_LOAD"
ErrConfigSave == "ERROR_CONFIG_SAVE"

\* ------------------------------------------------------------------------
\* Configuration values
\* ------------------------------------------------------------------------

\* the zero value of Configuration (ConfigDefault, ConfigRuntime at process start)
ZeroConfig ==
    [Server   |-> [Folder |-> <<>>, FileName |-> <<>>, Version |-> <<>>, Protocol |-> 0],
     Commands |-> [StartServer |-> <<>>, StartServerParam |-> <<>>,
                   StopServerAllowKill |-> 0],
     Msh      |-> [ID |-> <<>>, Debug |-> 0, AllowSuspend |-> FALSE,
                   InfoHibernation |-> <<>>, InfoStarting |-> <<>>,
                   NotifyUpdate |-> FALSE, NotifyMessage |-> FALSE,
                   ListenPort |-> 0, TimeBeforeStoppingEmptyServer |-> 0]]

\* a config file as shipped: "java <Commands.StartServerParam> -jar <Server.FileName> nogui"
BaseConfig ==
    [Server   |-> [Folder |-> <<"s","r","v">>, FileName |-> <<"s",".","j","a","r">>,
                   Version |-> <<"1",".","1","9">>, Protocol |-> 759],
     Commands |-> [StartServer |-> <<"j","a","v","a"," ">> \o TokStartServerParam
                                   \o <<" ","-","j","a","r"," ">> \o TokFileName
                                   \o <<" ","n","o","g","u","i">>,
                   StartServerParam |-> <<"-","X","m","x","1","G">>,
                   StopServerAllowKill |-> 10],
     Msh      |-> [ID |-> <<>>, Debug |-> 1, AllowSuspend |-> FALSE,
                   InfoHibernation |-> <<"h","i","b">>, InfoStarting |-> <<"s","t","a">>,
                   NotifyUpdate |-> TRUE, NotifyMessage |-> TRUE,
                   ListenPort |-> 25555, TimeBeforeStoppingEmptyServer |-> 30]]

\* ------------------------------------------------------------------------
\* Identity derivation
\* ------------------------------------------------------------------------

\* the directory of the msh executable (filepath.Dir(os.Executable())) and another one
ExeDir   == <<"/","o","p","t","/","m","s","h">>
OtherDir == <<"/","h","o","m","e">>
Dirs     == {ExeDir, OtherDir}

\* machineid.ProtectedID("msh") on this machine, and on another one
HostMachineID  == <<"m","1">>
OtherMachineID == <<"m","2">>

CharCode(ch) ==
    IF \E i \in 1..Len(HexDigits) : HexDigits[i] = ch
    THEN CHOOSE i \in 1..Len(HexDigits) : HexDigits[i] = ch
    ELSE IF \E i \in 1..Len(Lower) : Lower[i] = ch
         THEN 16 + (CHOOSE i \in 1..Len(Lower) : Lower[i] = ch)
         ELSE 7

RECURSIVE CharSum(_)
CharSum(s) == IF s = <<>> THEN 0 ELSE CharCode(Head(s)) + 3 * CharSum(Tail(s))

\* hex.EncodeToString(sha1(data)): a digest of the bytes written to the hasher,
\* always 40 lowercase hexadecimal characters
Sha1Hex(data) ==
    [i \in 1..MshIDLen |-> HexDigits[((CharSum(data) + i * (Len(data) + 1)) % 16) + 1]]

\* 40 lowercase hexadecimal characters
IsLowerHex40(s) ==
    /\ Len(s) = MshIDLen
    /\ \A i \in 1..Len(s) : \E j \in 1..Len(HexDigits) : HexDigits[j] = s[i]

\* ------------------------------------------------------------------------
\* Inputs: the config file beside the executable, the command line, the server
\* folder, the outcomes of the external collaborators
\* ------------------------------------------------------------------------

\* identities a config file may hold: none, the one this installation derives,
\* a hand-edited short one, 40 characters that are not hexadecimal
StoredIDs ==
    { <<>>, Sha1Hex(HostMachineID \o ExeDir), <<"a","b","c">>, Repeat("Z", MshIDLen) }

\* what getVersionInfo reports when it succeeds
VersionInfos ==
    { [version |-> <<"1",".","1","9">>, protocol |-> 759],
      [version |-> <<"1",".","2","0">>, protocol |-> 763] }

StoredConfigs == { [BaseConfig EXCEPT !.Msh.ID = id] : id \in StoredIDs }

\* encoding/json on a Configuration: every field is written under its key
JsonMarshal(c) == [kind |-> "json", cfg |-> c]

FileMissing == [kind |-> "missing", cfg |-> ZeroConfig]
FileGarbage == [kind |-> "garbage", cfg |-> ZeroConfig]

InitialFiles == {FileMissing, FileGarbage} \cup {JsonMarshal(c) : c \in StoredConfigs}

\* the flags of loadRuntime (lines 172-188)
FlagNames ==
    { "folder", "file", "version", "protocol", "msparam", "allowkill", "id", "d",
      "allowsuspend", "infohibe", "infostar", "notifyupd", "notifymes", "port",
      "timeout" }

\* values given to the flags that are supplied
FlagValues ==
    [Server   |-> [Folder |-> <<"m","c">>, FileName |-> <<"t",".","j","a","r">>,
                   Version |-> <<"1",".","1","8">>, Protocol |-> 758],
     Commands |-> [StartServer |-> <<>>, StartServerParam |-> <<"-","X","m","s","2","G">>,
                   StopServerAllowKill |-> 20],
     Msh      |-> [ID |-> <<>>, Debug |-> 3, AllowSuspend |-> TRUE,
                   InfoHibernation |-> <<"z","z","z">>, InfoStarting |-> <<"u","p">>,
                   NotifyUpdate |-> FALSE, NotifyMessage |-> FALSE,
                   ListenPort |-> 25565, TimeBeforeStoppingEmptyServer |-> 60]]

\* values of the -id flag: 40 characters that are not hexadecimal, the digest of
\* another machine, and a length just off 40
FlagIDs ==
    { Repeat("G", MshIDLen), Sha1Hex(OtherMachineID \o ExeDir),
      Repeat("a", MshIDLen - 1) }

\* command lines: malformed (flag.Parse exits), no flag, -id, some other flags
ArgChoices ==
    { [malformed |-> TRUE,  set |-> {}, val |-> FlagValues],
      [malformed |-> FALSE, set |-> {}, val |-> FlagValues],
      [malformed |-> FALSE, set |-> {"file", "version", "protocol", "d"},
       val |-> FlagValues] }
    \cup { [malformed |-> FALSE, set |-> {"id"},
            val |-> [FlagValues EXCEPT !.Msh.ID = id]] : id \in FlagIDs }

\* contents of eula.txt
EulaContents ==
    { <<"e","u","l","a","=","t","r","u","e">>,
      <<"#","x","\n","E","U","L","A"," ","="," ","T","r","u","e","\n">>,
      <<"e","u","l","a","=","f","a","l","s","e">>,
      <<"e","u","l","a","=","\t","t","r","u","e">> }

\* eula.txt on disk: unreadable (ioutil.ReadFile fails) or readable with contents
EulaUnreadable == [readable |-> FALSE, data |-> <<>>]

EulaFiles == { EulaUnreadable } \cup { [readable |-> TRUE, data |-> d] : d \in EulaContents }

\* eula.txt after the start command ran: still none, the one a server generates,
\* or an accepting one
EulaFilesAfterStart ==
    { EulaUnreadable,
      [readable |-> TRUE, data |-> <<"e","u","l","a","=","f","a","l","s","e">>],
      [readable |-> TRUE, data |-> <<"e","u","l","a","=","t","r","u","e">>] }

\* output of "java --version"
JavaVersionOut == <<"j","a","v","a"," ","1","7","\r","\n","J","V","M","\n">>

\* the steps of one bootstrap run
StepNames ==
    { "validate-host", "load-default", "derive-identity", "probe-version",
      "overlay-args", "reconcile-identity", "validate-folder", "validate-gate-file",
      "bootstrap-process", "validate-runtime-tool", "resolve-network", "load-icon",
      "conditional-save" }

\* where a run ends: LoadConfig returned nil, returned an error, or flag.Parse exited
Terminal == { "ready", "fatal", "exited" }

\* ------------------------------------------------------------------------
\* State
\* ------------------------------------------------------------------------

VARIABLES
    pc,                 \* the step LoadConfig is about to execute, or where it ended
    run,                \* how many times the process has been started
    trace,              \* the steps this run has executed, in order
    args,               \* the command line of this process
    cwd,                \* the working directory of this process
    files,              \* msh-config.json in each directory
    ConfigDefault,      \* *ConfigDefault
    ConfigRuntime,      \* *ConfigRuntime
    ConfigDefaultSave,  \* the dirty flag
    StatsError,         \* servstats.Stats.Error
    Javav,              \* the java version string
    DebugLvl,           \* errco.DebugLvl
    ret,                \* what LoadConfig returned
    derived,            \* loadDefault computed the sha1 identity in this run
    serverFile,         \* what os.Stat said of <Server.Folder>/<Server.FileName>
    eulaErr,            \* the error of ioutil.ReadFile(eulaFilePath), line 239
    eulaData,           \* the data of ioutil.ReadFile(eulaFilePath), line 239
    eulaFile,           \* eula.txt on disk, as of the last step that touched it
    launches,           \* how many times the start command was run
    writes              \* how many times Save called ioutil.WriteFile

vars ==
    << pc, run, trace, args, cwd, files, ConfigDefault, ConfigRuntime,
       ConfigDefaultSave, StatsError, Javav, DebugLvl, ret, derived, serverFile,
       eulaErr, eulaData, eulaFile, launches, writes >>

\* the package-level variables and servstats.Stats as a process finds them at start
FreshProcess ==
    /\ pc = "validate-host"
    /\ trace = <<>>
    /\ ConfigDefault = ZeroConfig
    /\ ConfigRuntime = ZeroConfig
    /\ ConfigDefaultSave = FALSE
    /\ StatsError = StatusNil
    /\ Javav = <<>>
    /\ DebugLvl = 0
    /\ ret = ErrNil
    /\ derived = FALSE
    /\ serverFile = "unchecked"
    /\ eulaErr = "unread"
    /\ eulaData = <<>>
    /\ eulaFile = EulaUnreadable
    /\ launches = 0
    /\ writes = 0

Init ==
    /\ FreshProcess
    /\ run = 1
    /\ args \in ArgChoices
    /\ cwd \in Dirs
    /\ \E f \in InitialFiles : files = [d \in Dirs |-> IF d = ExeDir THEN f ELSE FileMissing]

\* ------------------------------------------------------------------------
\* LoadConfig, lines 47-84
\* ------------------------------------------------------------------------

\* a bug: the error of an unsupported host is kept but LoadConfig goes on
OsSupported_GoesOn ==
    /\ pc = "validate-host"
    /\ trace' = Append(trace, "validate-host")
    /\ \E supported \in BOOLEAN :
         /\ pc' = "load-default"
         /\ ret' = IF supported THEN ret ELSE ErrOsSupport
    /\ UNCHANGED << run, args, cwd, files, ConfigDefault, ConfigRuntime,
                    ConfigDefaultSave, StatsError, Javav, DebugLvl, derived,
                    serverFile, eulaErr, eulaData, eulaFile, launches, writes >>

\* opsys.OsSupported(), lines 53-56
OsSupported ==
    /\ pc = "validate-host"
    /\ trace' = Append(trace, "validate-host")
    /\ \E supported \in BOOLEAN :
         IF supported
         THEN /\ pc' = "load-default"
              /\ ret' = ret
         ELSE /\ pc' = "fatal"
              /\ ret' = ErrOsSupport
    /\ UNCHANGED << run, args, cwd, files, ConfigDefault, ConfigRuntime,
                    ConfigDefaultSave, StatsError, Javav, DebugLvl, derived,
                    serverFile, eulaErr, eulaData, eulaFile, launches, writes >>

\* json.Unmarshal(configData, &c): the keys of the document overwrite the fields
JsonUnmarshal(file, c) == file.cfg

\* loadDefault up to the deserialization, lines 107-124
LoadDefault ==
    /\ pc = "load-default"
    /\ trace' = Append(trace, "load-default")
    /\ \E executableOk \in BOOLEAN :
         IF executableOk /\ files[ExeDir].kind = "json"
         THEN /\ ConfigDefault' = JsonUnmarshal(files[ExeDir], ConfigDefault)
              /\ pc' = "derive-identity"
              /\ ret' = ret
         ELSE /\ ConfigDefault' = ConfigDefault
              /\ pc' = "fatal"
              /\ ret' = ErrConfigLoad
    /\ UNCHANGED << run, args, cwd, files, ConfigRuntime, ConfigDefaultSave,
                    StatsError, Javav, DebugLvl, derived, serverFile, eulaErr,
                    eulaData, eulaFile, launches, writes >>

\* os.Executable(): the msh binary in ExeDir
ExePath == ExeDir \o <<"/","m","s","h">>

\* filepath.Dir of a path that holds a separator and does not end with one
FilepathDir(path) ==
    LET last == CHOOSE i \in 1..Len(path) :
                    /\ path[i] = "/"
                    /\ \A j \in (i + 1)..Len(path) : path[j] # "/"
    IN  IF last = 1 THEN <<"/">> ELSE SubSeq(path, 1, last - 1)

\* c.assignMshID(): the stored identity is left as it is
assignMshID(c) == c

\* a bug: a failure to resolve the executable path is only logged and the digest
\* is taken over the hardware id alone
DeriveIdentityStep_IgnorePathError(c, save, idErr, exErr) ==
    IF idErr THEN [c |-> c, save |-> save]
    ELSE LET id == Sha1Hex(IF exErr THEN HostMachineID
                           ELSE HostMachineID \o FilepathDir(ExePath))
         IN  IF c.Msh.ID # id
             THEN [c |-> [c EXCEPT !.Msh.ID = id], save |-> TRUE]
             ELSE [c |-> c, save |-> save]

\* the mshid of loadDefault, lines 134-148: the fields and the dirty flag afterwards
DeriveIdentityStep(c, save, idErr, exErr) ==
    IF idErr THEN [c |-> assignMshID(c), save |-> save]
    ELSE IF exErr THEN [c |-> assignMshID(c), save |-> save]
    ELSE LET id == Sha1Hex(HostMachineID \o FilepathDir(ExePath))
         IN  IF c.Msh.ID # id
             THEN [c |-> [c EXCEPT !.Msh.ID = id], save |-> TRUE]
             ELSE [c |-> c, save |-> save]

DeriveIdentity ==
    /\ pc = "derive-identity"
    /\ trace' = Append(trace, "derive-identity")
    /\ \E idErr \in BOOLEAN, exErr \in BOOLEAN :
         LET r == DeriveIdentityStep(ConfigDefault, ConfigDefaultSave, idErr, exErr)
         IN  /\ ConfigDefault' = r.c
             /\ ConfigDefaultSave' = r.save
             /\ derived' = (~idErr /\ ~exErr)
    /\ pc' = "probe-version"
    /\ UNCHANGED << run, args, cwd, files, ConfigRuntime, StatsError, Javav,
                    DebugLvl, ret, serverFile, eulaErr, eulaData, eulaFile,
                    launches, writes >>

\* a bug: a successful probe marks the config dirty even when nothing changed
ProbeVersionStep_AlwaysDirty(c, save, probeErr, info) ==
    IF probeErr THEN [c |-> c, save |-> save]
    ELSE [c |-> [c EXCEPT !.Server.Version = info.version,
                          !.Server.Protocol = info.protocol],
          save |-> TRUE]

\* the version/protocol of loadDefault, lines 152-160
ProbeVersionStep(c, save, probeErr, info) ==
    IF probeErr THEN [c |-> c, save |-> save]
    ELSE IF c.Server.Version # info.version \/ c.Server.Protocol # info.protocol
         THEN [c |-> [c EXCEPT !.Server.Version = info.version,
                               !.Server.Protocol = info.protocol],
               save |-> TRUE]
         ELSE [c |-> c, save |-> save]

ProbeVersion ==
    /\ pc = "probe-version"
    /\ trace' = Append(trace, "probe-version")
    /\ \E probeErr \in BOOLEAN, info \in VersionInfos :
         LET r == ProbeVersionStep(ConfigDefault, ConfigDefaultSave, probeErr, info)
         IN  /\ ConfigDefault' = r.c
             /\ ConfigDefaultSave' = r.save
    /\ pc' = "overlay-args"
    /\ UNCHANGED << run, args, cwd, files, ConfigRuntime, StatsError, Javav,
                    DebugLvl, ret, derived, serverFile, eulaErr, eulaData,
                    eulaFile, launches, writes >>

\* ------------------------------------------------------------------------
\* loadRuntime, lines 167-304
\* ------------------------------------------------------------------------

\* a bug: the flags are declared with fixed defaults instead of the values of the
\* loaded configuration, so an omitted flag resets its field
ParseFlags_FixedDefaults(c, a) ==
    [a.val EXCEPT !.Commands.StartServer = c.Commands.StartServer]

\* flag.Parse over the flags of lines 172-188: a supplied flag sets its field, an
\* omitted one leaves the default it was declared with
ParseFlags(c, a) ==
    LET pick(name, given, dflt) == IF name \in a.set THEN given ELSE dflt
    IN  [Server |->
           [Folder   |-> pick("folder", a.val.Server.Folder, c.Server.Folder),
            FileName |-> pick("file", a.val.Server.FileName, c.Server.FileName),
            Version  |-> pick("version", a.val.Server.Version, c.Server.Version),
            Protocol |-> pick("protocol", a.val.Server.Protocol, c.Server.Protocol)],
         Commands |->
           [StartServer         |-> c.Commands.StartServer,
            StartServerParam    |-> pick("msparam", a.val.Commands.StartServerParam,
                                         c.Commands.StartServerParam),
            StopServerAllowKill |-> pick("allowkill", a.val.Commands.StopServerAllowKill,
                                         c.Commands.StopServerAllowKill)],
         Msh |->
           [ID              |-> pick("id", a.val.Msh.ID, c.Msh.ID),
            Debug           |-> pick("d", a.val.Msh.Debug, c.Msh.Debug),
            AllowSuspend    |-> pick("allowsuspend", a.val.Msh.AllowSuspend,
                                     c.Msh.AllowSuspend),
            InfoHibernation |-> pick("infohibe", a.val.Msh.InfoHibernation,
                                     c.Msh.InfoHibernation),
            InfoStarting    |-> pick("infostar", a.val.Msh.InfoStarting,
                                     c.Msh.InfoStarting),
            NotifyUpdate    |-> pick("notifyupd", a.val.Msh.NotifyUpdate,
                                     c.Msh.NotifyUpdate),
            NotifyMessage   |-> pick("notifymes", a.val.Msh.NotifyMessage,
                                     c.Msh.NotifyMessage),
            ListenPort      |-> pick("port", a.val.Msh.ListenPort, c.Msh.ListenPort),
            TimeBeforeStoppingEmptyServer |->
                pick("timeout", a.val.Msh.TimeBeforeStoppingEmptyServer,
                     c.Msh.TimeBeforeStoppingEmptyServer)]]

\* a bug: the two replacements are made in the other order
ReplacePlaceholders_ParamFirst(c) ==
    LET first  == ReplaceAll(c.Commands.StartServer, TokStartServerParam,
                             c.Commands.StartServerParam)
        second == ReplaceAll(first, TokFileName, c.Server.FileName)
    IN  [c EXCEPT !.Commands.StartServer = second]

\* the placeholders of the start command, lines 201-202
ReplacePlaceholders(c) ==
    LET first  == ReplaceAll(c.Commands.StartServer, TokFileName, c.Server.FileName)
        second == ReplaceAll(first, TokStartServerParam, c.Commands.StartServerParam)
    IN  [c EXCEPT !.Commands.StartServer = second]

\* a bug: the runtime configuration is the default itself instead of a copy of
\* it, so the flags and the substitution are written into the default
OverlayArgs_Aliased ==
    /\ pc = "overlay-args"
    /\ trace' = Append(trace, "overlay-args")
    /\ IF args.malformed
       THEN /\ ConfigRuntime' = ConfigDefault
            /\ DebugLvl' = DebugLvl
            /\ pc' = "exited"
       ELSE /\ ConfigRuntime' = ReplacePlaceholders(ParseFlags(ConfigDefault, args))
            /\ DebugLvl' = ConfigRuntime'.Msh.Debug
            /\ pc' = "reconcile-identity"
    /\ ConfigDefault' = ConfigRuntime'
    /\ UNCHANGED << run, args, cwd, files, ConfigDefaultSave,
                    StatsError, Javav, ret, derived, serverFile, eulaErr,
                    eulaData, eulaFile, launches, writes >>

\* lines 169-206: copy of the default, flags, placeholders, debug level
OverlayArgs ==
    /\ pc = "overlay-args"
    /\ trace' = Append(trace, "overlay-args")
    /\ IF args.malformed
       THEN /\ ConfigRuntime' = ConfigDefault
            /\ DebugLvl' = DebugLvl
            /\ pc' = "exited"
       ELSE /\ ConfigRuntime' = ReplacePlaceholders(ParseFlags(ConfigDefault, args))
            /\ DebugLvl' = ConfigRuntime'.Msh.Debug
            /\ pc' = "reconcile-identity"
    /\ UNCHANGED << run, args, cwd, files, ConfigDefault, ConfigDefaultSave,
                    StatsError, Javav, ret, derived, serverFile, eulaErr,
                    eulaData, eulaFile, launches, writes >>

\* a bug: the length is compared with <= instead of ==
IsHealthyID_AtMost(id) == Len(id) <= MshIDLen

\* a healthy mshid, line 217
IsHealthyID(id) == Len(id) = MshIDLen

\* a bug: the promoted mshid is not marked for saving
ReconcileIdentityStep_NotDirty(confdef, c, save) ==
    IF confdef.Msh.ID # c.Msh.ID /\ IsHealthyID(c.Msh.ID)
    THEN [confdef |-> [confdef EXCEPT !.Msh.ID = c.Msh.ID], save |-> save]
    ELSE [confdef |-> confdef, save |-> save]

\* the user specified mshid, lines 216-224: the default config and the dirty flag
ReconcileIdentityStep(confdef, c, save) ==
    IF confdef.Msh.ID # c.Msh.ID
    THEN IF IsHealthyID(c.Msh.ID)
         THEN [confdef |-> [confdef EXCEPT !.Msh.ID = c.Msh.ID], save |-> TRUE]
         ELSE [confdef |-> confdef, save |-> save]
    ELSE [confdef |-> confdef, save |-> save]

ReconcileIdentity ==
    /\ pc = "reconcile-identity"
    /\ trace' = Append(trace, "reconcile-identity")
    /\ LET r == ReconcileIdentityStep(ConfigDefault, ConfigRuntime, ConfigDefaultSave)
       IN  /\ ConfigDefault' = r.confdef
           /\ ConfigDefaultSave' = r.save
    /\ pc' = "validate-folder"
    /\ UNCHANGED << run, args, cwd, files, ConfigRuntime, StatsError, Javav,
                    DebugLvl, ret, derived, serverFile, eulaErr, eulaData,
                    eulaFile, launches, writes >>

\* strings.Split(s, sep)[0]: what precedes the first sep, all of s if there is none
FirstField(s, sep) ==
    IF \E i \in 1..Len(s) : s[i] = sep
    THEN SubSeq(s, 1, (CHOOSE i \in 1..Len(s) :
                          s[i] = sep /\ \A j \in 1..(i - 1) : s[j] # sep) - 1)
    ELSE s

\* a bug: the eula check is entered although the server file does not exist
FolderNextStep_GateAnyway(notExist) == "validate-gate-file"

\* a bug: a missing server also skips the java check
FolderNextStep_SkipTool(notExist) ==
    IF notExist THEN "resolve-network" ELSE "validate-gate-file"

\* a bug: after a missing server the flags are gone through once more
FolderNextStep_Again(notExist) ==
    IF notExist THEN "overlay-args" ELSE "validate-gate-file"

\* the step after the os.Stat of <Server.Folder>/<Server.FileName>, lines 228-234
FolderNextStep(notExist) ==
    IF notExist THEN "validate-runtime-tool" ELSE "validate-gate-file"

\* lines 226-234
ValidateFolder ==
    /\ pc = "validate-folder"
    /\ trace' = Append(trace, "validate-folder")
    /\ \E notExist \in BOOLEAN :
         /\ serverFile' = IF notExist THEN "missing" ELSE "present"
         /\ StatsError' = IF notExist THEN StatusServerMissing ELSE StatsError
         /\ pc' = FolderNextStep(notExist)
    /\ UNCHANGED << run, args, cwd, files, ConfigDefault, ConfigRuntime,
                    ConfigDefaultSave, Javav, DebugLvl, ret, derived, eulaErr,
                    eulaData, eulaFile, launches, writes >>

\* a bug: the contents are compared without strings.ToLower
EulaAccepted_CaseSensitive(data) ==
    Contains(ReplaceAll(data, <<" ">>, <<>>), EulaTrue)

\* line 262: eula.txt is set to true
EulaAccepted(data) ==
    Contains(ReplaceAll(ToLower(data), <<" ">>, <<>>), EulaTrue)

\* a bug: the start command is also run when eula.txt is readable and not accepted
GateCase_StartOnNotAccepted(readErr, data) ==
    IF readErr \/ ~EulaAccepted(data) THEN "unreadable" ELSE "accepted"

\* the case of the switch of lines 240-272 that is entered
GateCase(readErr, data) ==
    IF readErr THEN "unreadable"
    ELSE IF ~EulaAccepted(data) THEN "not-accepted"
    ELSE "accepted"

\* lines 238-241 and 262-272: eula.txt is read and, if readable, checked
ValidateGateFile ==
    /\ pc = "validate-gate-file"
    /\ trace' = Append(trace, "validate-gate-file")
    /\ \E onDisk \in EulaFiles :
         LET case == GateCase(~onDisk.readable, onDisk.data)
         IN  /\ eulaFile' = onDisk
             /\ eulaErr' = IF onDisk.readable THEN "nil" ELSE "error"
             /\ eulaData' = onDisk.data
             /\ StatsError' = IF case = "not-accepted" THEN StatusAcceptEula ELSE StatsError
             /\ pc' = IF case = "unreadable" THEN "bootstrap-process"
                      ELSE "validate-runtime-tool"
    /\ UNCHANGED << run, args, cwd, files, ConfigDefault, ConfigRuntime,
                    ConfigDefaultSave, Javav, DebugLvl, ret, derived, serverFile,
                    launches, writes >>

\* a different switch: eula.txt is read again after the start command and the
\* second case is entered only if it does not accept
BootstrapStatus_Recheck(status, runErr, onDiskAfter) ==
    LET afterRun == IF runErr THEN StatusCouldNotStart ELSE status
    IN  IF onDiskAfter.readable /\ EulaAccepted(onDiskAfter.data)
        THEN afterRun
        ELSE StatusAcceptEula

\* servstats.Stats.Error after the first case of the switch, lines 254-266: the
\* status of a failed cmd.Run, then the body of the second case by fallthrough
BootstrapStatus(status, runErr, onDiskAfter) ==
    LET afterRun == IF runErr THEN StatusCouldNotStart ELSE status
    IN  StatusAcceptEula

\* lines 244-266: the start command is run in the server folder
BootstrapProcess ==
    /\ pc = "bootstrap-process"
    /\ trace' = Append(trace, "bootstrap-process")
    /\ launches' = launches + 1
    /\ \E runErr \in (IF FirstField(ConfigRuntime.Commands.StartServer, " ") = <<>>
                      THEN {TRUE} ELSE BOOLEAN),
          onDiskAfter \in EulaFilesAfterStart :
         /\ eulaFile' = onDiskAfter
         /\ StatsError' = BootstrapStatus(StatsError, runErr, onDiskAfter)
    /\ pc' = "validate-runtime-tool"
    /\ UNCHANGED << run, args, cwd, files, ConfigDefault, ConfigRuntime,
                    ConfigDefaultSave, Javav, DebugLvl, ret, derived, serverFile,
                    eulaErr, eulaData, writes >>

\* a bug: the java check stores its own outcome, so a found java clears the status
ValidateRuntimeTool_Clears ==
    /\ pc = "validate-runtime-tool"
    /\ trace' = Append(trace, "validate-runtime-tool")
    /\ \E lookErr \in BOOLEAN, versionErr \in BOOLEAN :
         IF lookErr
         THEN /\ StatsError' = StatusJavaMissing
              /\ Javav' = Javav
         ELSE /\ StatsError' = StatusNil
              /\ Javav' = IF versionErr THEN JavavUnknown
                          ELSE ReplaceAll(FirstField(JavaVersionOut, "\n"), <<"\r">>, <<>>)
    /\ pc' = "resolve-network"
    /\ UNCHANGED << run, args, cwd, files, ConfigDefault, ConfigRuntime,
                    ConfigDefaultSave, DebugLvl, ret, derived, serverFile,
                    eulaErr, eulaData, eulaFile, launches, writes >>

\* lines 275-286: exec.LookPath("java"), then "java --version"
ValidateRuntimeTool ==
    /\ pc = "validate-runtime-tool"
    /\ trace' = Append(trace, "validate-runtime-tool")
    /\ \E lookErr \in BOOLEAN, versionErr \in BOOLEAN :
         IF lookErr
         THEN /\ StatsError' = StatusJavaMissing
              /\ Javav' = Javav
         ELSE /\ StatsError' = StatsError
              /\ Javav' = IF versionErr THEN JavavUnknown
                          ELSE ReplaceAll(FirstField(JavaVersionOut, "\n"), <<"\r">>, <<>>)
    /\ pc' = "resolve-network"
    /\ UNCHANGED << run, args, cwd, files, ConfigDefault, ConfigRuntime,
                    ConfigDefaultSave, DebugLvl, ret, derived, serverFile,
                    eulaErr, eulaData, eulaFile, launches, writes >>

\* lines 288-294: c.loadIpPorts()
ResolveNetwork ==
    /\ pc = "resolve-network"
    /\ trace' = Append(trace, "resolve-network")
    /\ \E ipPortsErr \in BOOLEAN :
         StatsError' = IF ipPortsErr THEN StatusProxyFailed ELSE StatsError
    /\ pc' = "load-icon"
    /\ UNCHANGED << run, args, cwd, files, ConfigDefault, ConfigRuntime,
                    ConfigDefaultSave, Javav, DebugLvl, ret, derived, serverFile,
                    eulaErr, eulaData, eulaFile, launches, writes >>

\* a bug: the error of c.loadIcon() is returned instead of logged
LoadIcon_Fatal ==
    /\ pc = "load-icon"
    /\ trace' = Append(trace, "load-icon")
    /\ \E iconErr \in BOOLEAN :
         IF iconErr
         THEN /\ pc' = "fatal"
              /\ ret' = "ERROR_ICON_LOAD"
         ELSE /\ pc' = "conditional-save"
              /\ ret' = ret
    /\ UNCHANGED << run, args, cwd, files, ConfigDefault, ConfigRuntime,
                    ConfigDefaultSave, StatsError, Javav, DebugLvl, derived,
                    serverFile, eulaErr, eulaData, eulaFile, launches, writes >>

\* lines 296-303: c.loadIcon(), whose error is only logged
LoadIcon ==
    /\ pc = "load-icon"
    /\ trace' = Append(trace, "load-icon")
    /\ pc' = "conditional-save"
    /\ UNCHANGED << run, args, cwd, files, ConfigDefault, ConfigRuntime,
                    ConfigDefaultSave, StatsError, Javav, DebugLvl, ret, derived,
                    serverFile, eulaErr, eulaData, eulaFile, launches, writes >>

\* a bug: the config is saved on every start
ShouldSave_Always == TRUE

\* line 76: the config is saved
ShouldSave == ConfigDefaultSave

\* the file ioutil.WriteFile leaves, line 96: the data, or on an error the old file
\* (it could not be opened) or a truncated one
WriteFileResult(old, data, writeErr, opened) ==
    IF ~writeErr THEN data
    ELSE IF opened THEN FileGarbage
    ELSE old

\* lines 76-83 of LoadConfig and Save, lines 88-104
ConditionalSave ==
    /\ pc = "conditional-save"
    /\ trace' = Append(trace, "conditional-save")
    /\ IF ShouldSave
       THEN \E writeErr \in BOOLEAN, opened \in BOOLEAN :
              /\ files' = [files EXCEPT ![cwd] =
                             WriteFileResult(@, JsonMarshal(ConfigDefault), writeErr, opened)]
              /\ writes' = writes + 1
              /\ ret' = IF writeErr THEN ErrConfigSave ELSE ret
              /\ pc' = IF writeErr THEN "fatal" ELSE "ready"
       ELSE /\ pc' = "ready"
            /\ UNCHANGED << files, writes, ret >>
    /\ UNCHANGED << run, args, cwd, ConfigDefault, ConfigRuntime,
                    ConfigDefaultSave, StatsError, Javav, DebugLvl, derived,
                    serverFile, eulaErr, eulaData, eulaFile, launches >>

\* the process ended; msh is started again on the same disk
Restart ==
    /\ pc \in Terminal
    /\ run < MaxRuns
    /\ run' = run + 1
    /\ args' \in ArgChoices
    /\ cwd' = cwd
    /\ files' = files
    /\ pc' = "validate-host"
    /\ trace' = <<>>
    /\ ConfigDefault' = ZeroConfig
    /\ ConfigRuntime' = ZeroConfig
    /\ ConfigDefaultSave' = FALSE
    /\ StatsError' = StatusNil
    /\ Javav' = <<>>
    /\ DebugLvl' = 0
    /\ ret' = ErrNil
    /\ derived' = FALSE
    /\ serverFile' = "unchecked"
    /\ eulaErr' = "unread"
    /\ eulaData' = <<>>
    /\ eulaFile' = EulaUnreadable
    /\ launches' = 0
    /\ writes' = 0

Next ==
    \/ OsSupported
    \/ LoadDefault
    \/ DeriveIdentity
    \/ ProbeVersion
    \/ OverlayArgs
    \/ ReconcileIdentity
    \/ ValidateFolder
    \/ ValidateGateFile
    \/ BootstrapProcess
    \/ ValidateRuntimeTool
    \/ ResolveNetwork
    \/ LoadIcon
    \/ ConditionalSave
    \/ Restart

Spec == Init /\ [][Next]_vars

\* ------------------------------------------------------------------------
\* loadRuntime's flag overlay and placeholder substitution on their own,
\* lines 167-206, over a wider range of configurations and command lines
\* ------------------------------------------------------------------------

\* start command templates of a config file: the shipped one, each token twice,
\* no token, a file name token inside the text of a parameter token, empty
OverlayTemplates ==
    { BaseConfig.Commands.StartServer,
      TokFileName \o <<" ">> \o TokFileName \o <<" ">> \o TokStartServerParam
          \o TokStartServerParam,
      <<"r","u","n">>,
      SubSeq(TokStartServerParam, 1, 15) \o TokFileName
          \o SubSeq(TokStartServerParam, 22, 27),
      <<>> }

\* file names of a config file: plain, a parameter token, the word the fourth
\* template lacks, empty
OverlayFileNames ==
    { BaseConfig.Server.FileName, TokStartServerParam,
      SubSeq(TokStartServerParam, 16, 21), <<>> }

\* start parameters of a config file: plain, a file name token, empty
OverlayParams == { BaseConfig.Commands.StartServerParam, TokFileName, <<>> }

\* the default configuration loadDefault hands to loadRuntime
OverlayConfigs ==
    { [BaseConfig EXCEPT !.Commands.StartServer = t, !.Server.FileName = f,
                         !.Commands.StartServerParam = p] :
        t \in OverlayTemplates, f \in OverlayFileNames, p \in OverlayParams }

\* command lines: malformed, no flag, every flag, each flag alone
OverlayArgChoices ==
    LET given == [FlagValues EXCEPT !.Msh.ID = Repeat("G", MshIDLen)]
    IN  { [malformed |-> TRUE,  set |-> {}, val |-> given],
          [malformed |-> FALSE, set |-> {}, val |-> given],
          [malformed |-> FALSE, set |-> FlagNames, val |-> given] }
        \cup { [malformed |-> FALSE, set |-> {f}, val |-> given] : f \in FlagNames }

\* loadRuntime is entered, line 167: loadDefault read the file beside the
\* executable, the identity could not be derived and the version probe failed
InitOverlay ==
    /\ run = 1
    /\ pc = "overlay-args"
    /\ trace = << "validate-host", "load-default", "derive-identity", "probe-version" >>
    /\ args \in OverlayArgChoices
    /\ cwd = ExeDir
    /\ ConfigDefault \in OverlayConfigs
    /\ files = [d \in Dirs |-> IF d = ExeDir THEN JsonMarshal(ConfigDefault)
                               ELSE FileMissing]
    /\ ConfigRuntime = ZeroConfig
    /\ ConfigDefaultSave = FALSE
    /\ StatsError = StatusNil
    /\ Javav = <<>>
    /\ DebugLvl = 0
    /\ ret = ErrNil
    /\ derived = FALSE
    /\ serverFile = "unchecked"
    /\ eulaErr = "unread"
    /\ eulaData = <<>>
    /\ eulaFile = EulaUnreadable
    /\ launches = 0
    /\ writes = 0

NextOverlay == OverlayArgs

SpecOverlay == InitOverlay /\ [][NextOverlay]_vars

\* ------------------------------------------------------------------------
\* LoadConfig run again and again in an unchanged environment: the hardware id
\* and the executable path are obtained in every run, the server jar reports
\* the same version in every run, and a run that returned nil is followed by a
\* run with the same command line
\* ------------------------------------------------------------------------

\* what getVersionInfo (line 152) reports in every run
StableInfo == [version |-> <<"1",".","2","0">>, protocol |-> 763]

\* lines 134-148 with machineid.ProtectedID and os.Executable succeeding
StableDerive == DeriveIdentity /\ derived'

\* lines 152-160 with the probe reporting StableInfo
StableProbe ==
    /\ ProbeVersion
    /\ ConfigDefault'.Server.Version = StableInfo.version
    /\ ConfigDefault'.Server.Protocol = StableInfo.protocol

\* a run that returned nil is repeated with the same flags
StableRestart == Restart /\ pc = "ready" /\ args' = args

NextStable ==
    \/ OsSupported
    \/ LoadDefault
    \/ StableDerive
    \/ StableProbe
    \/ OverlayArgs
    \/ ReconcileIdentity
    \/ ValidateFolder
    \/ ValidateGateFile
    \/ BootstrapProcess
    \/ ValidateRuntimeTool
    \/ ResolveNetwork
    \/ LoadIcon
    \/ ConditionalSave
    \/ StableRestart

SpecStable == Init /\ [][NextStable]_vars

\* ------------------------------------------------------------------------
\* Properties
\* ------------------------------------------------------------------------

\* the step was executed in this run
InTrace(step) == \E i \in 1..Len(trace) : trace[i] = step

\* the step executed last in this run
LastStep == IF trace = <<>> THEN "none" ELSE trace[Len(trace)]

\* the text without its spaces
RECURSIVE WithoutSpaces(_)
WithoutSpaces(text) ==
    IF text = <<>> THEN <<>>
    ELSE IF Head(text) = " " THEN WithoutSpaces(Tail(text))
    ELSE <<Head(text)>> \o WithoutSpaces(Tail(text))

\* the text lower-cased and with its spaces removed contains "eula=true"
NormalizedHasToken(text) ==
    LET norm == WithoutSpaces([i \in 1..Len(text) |-> ToLowerChar(text[i])])
    IN  \E i \in 1..Len(norm) :
            /\ i + Len(EulaTrue) - 1 <= Len(norm)
            /\ \A k \in 1..Len(EulaTrue) : norm[i + k - 1] = EulaTrue[k]

\* C1: in a run where <Server.Folder>/<Server.FileName> does not exist, the
\* "server missing" status is recorded by the folder check, eula.txt is never
\* read and the start command is never run.
C1_MissingServerSkipsGate ==
    serverFile = "missing" =>
        /\ (LastStep = "validate-folder" => StatsError = StatusServerMissing)
        /\ eulaErr = "unread"
        /\ ~InTrace("validate-gate-file")
        /\ ~InTrace("bootstrap-process")
        /\ launches = 0

C1_Witness ==
    /\ serverFile = "missing"
    /\ pc = "ready"
    /\ StatsError = StatusServerMissing
    /\ launches = 0

\* C2, as stated: with a missing server folder (the config loaded, the host
\* supported) LoadConfig ends in ready, servstats.Stats.Error is then the "server
\* missing" status, and the java lookup / version query was not attempted.
C2_AsStated ==
    (serverFile = "missing" /\ pc \in Terminal) =>
        /\ pc = "ready"
        /\ StatsError = StatusServerMissing
        /\ ~InTrace("validate-runtime-tool")

\* C2, amended: with a missing server folder the run reads no eula.txt and starts
\* no server, but it does make the java check; LoadConfig returns nil unless the
\* conditional Save fails; the status at the end is "server missing" unless the
\* java lookup or the proxy setup failed, whose status then replaces it.
C2_MissingServerEndToEnd ==
    (serverFile = "missing" /\ pc \in Terminal) =>
        /\ InTrace("validate-runtime-tool")
        /\ ~InTrace("validate-gate-file")
        /\ launches = 0
        /\ pc = "ready" \/ (pc = "fatal" /\ ret = ErrConfigSave /\ writes = 1)
        /\ StatsError \in {StatusServerMissing, StatusJavaMissing, StatusProxyFailed}
        /\ (Javav # <<>> /\ StatsError # StatusProxyFailed) => StatsError = StatusServerMissing
        /\ Javav = <<>> => StatsError # StatusServerMissing

C2_Witness ==
    /\ serverFile = "missing"
    /\ pc = "ready"
    /\ InTrace("validate-runtime-tool")
    /\ StatsError = StatusJavaMissing

\* C3, as stated: after the start command ran because eula.txt was unreadable, the
\* "please accept eula" status is recorded only if eula.txt does not accept then:
\* an accepting eula.txt left by the server means no such status.
C3_AsStated ==
    ( /\ LastStep = "bootstrap-process"
      /\ eulaFile.readable
      /\ NormalizedHasToken(eulaFile.data) )
    => StatsError # StatusAcceptEula

\* C3, amended: when the server file exists and eula.txt is unreadable the start
\* command is run once, and afterwards the "please accept eula" status is
\* recorded in every case: eula.txt is not read again, whatever the server left.
C3_UnreadableEulaStartsServer ==
    /\ (LastStep = "validate-gate-file" /\ eulaErr = "error") =>
          (pc = "bootstrap-process" /\ serverFile = "present" /\ launches = 0)
    /\ LastStep = "bootstrap-process" =>
          /\ launches = 1
          /\ eulaErr = "error"
          /\ eulaData = <<>>
          /\ StatsError = StatusAcceptEula

C3_Witness ==
    /\ LastStep = "bootstrap-process"
    /\ launches = 1
    /\ eulaFile.readable
    /\ NormalizedHasToken(eulaFile.data)
    /\ StatsError = StatusAcceptEula

\* C4: the start command is run in a bootstrap if and only if the server file
\* exists and eula.txt is unreadable, and then exactly once; a readable eula.txt
\* that does not accept gets the "please accept eula" status and no process.
C4_StartCommandOnlyForUnreadableEula ==
    /\ launches \in {0, 1}
    /\ launches = 1 <=> InTrace("bootstrap-process")
    /\ (InTrace("validate-folder") /\ pc \notin {"validate-gate-file", "bootstrap-process"})
         => (launches = 1 <=> (serverFile = "present" /\ eulaErr = "error"))
    /\ (eulaErr = "nil" /\ ~NormalizedHasToken(eulaData)) =>
         /\ launches = 0
         /\ LastStep = "validate-gate-file" => StatsError = StatusAcceptEula

C4_Witness ==
    /\ eulaErr = "nil"
    /\ eulaData = <<"e","u","l","a","=","f","a","l","s","e">>
    /\ StatsError = StatusAcceptEula
    /\ launches = 0
    /\ pc = "ready"

\* C5: when eula.txt is readable and its contents, lower-cased and with spaces
\* removed, contain "eula=true", the gate check leaves servstats.Stats.Error as it
\* was and runs no process.
C5_AcceptingEulaChangesNothing ==
    [][ (pc = "validate-gate-file" /\ eulaErr' = "nil" /\ NormalizedHasToken(eulaData'))
        => /\ StatsError' = StatsError
           /\ launches' = launches
           /\ pc' = "validate-runtime-tool" ]_vars

C5_Witness ==
    /\ LastStep = "validate-gate-file"
    /\ eulaErr = "nil"
    /\ eulaData = <<"#","x","\n","E","U","L","A"," ","="," ","T","r","u","e","\n">>
    /\ StatsError = StatusNil
    /\ launches = 0
    /\ pc = "validate-runtime-tool"

\* C6, as stated: LoadConfig returns an error only when the host is not supported
\* or loadDefault fails; a failed Save after a completed load still ends in ready.
C6_AsStated ==
    /\ ret # ErrNil => ret \in {ErrOsSupport, ErrConfigLoad}
    /\ (pc \in Terminal /\ writes > 0) => pc = "ready"

\* C6, amended: LoadConfig returns an error only when the host is not supported,
\* loadDefault fails, or Save fails after a completed load with the dirty flag
\* set; no failure of the identity derivation, version probe, folder, gate,
\* process launch, runtime tool, network or icon step makes it return an error.
C6_FatalOnlyFromHostLoadSave ==
    /\ ret # ErrNil <=> pc = "fatal"
    /\ pc = "fatal" =>
         \/ ret = ErrOsSupport /\ LastStep = "validate-host"
         \/ ret = ErrConfigLoad /\ LastStep = "load-default"
         \/ /\ ret = ErrConfigSave
            /\ LastStep = "conditional-save"
            /\ InTrace("load-icon")
            /\ ConfigDefaultSave
            /\ writes = 1
    /\ (LastStep = "conditional-save" /\ writes = 0) => pc = "ready"

C6_Witness ==
    /\ pc = "ready"
    /\ ~derived
    /\ launches = 1
    /\ Javav = JavavUnknown
    /\ StatsError = StatusProxyFailed

\* C7: msh-config.json is written in a run only if the dirty flag is true after
\* loadDefault and loadRuntime have both completed; in a run where the flag stays
\* false or a load step is fatal no config file is written.
C7_SavedOnlyWhenDirty ==
    /\ [](writes > 0 =>
            /\ ConfigDefaultSave
            /\ LastStep = "conditional-save"
            /\ InTrace("load-default")
            /\ InTrace("load-icon")
            /\ writes = 1)
    /\ []((pc \in Terminal /\ (~ConfigDefaultSave \/ ret \in {ErrOsSupport, ErrConfigLoad}))
            => writes = 0)
    /\ [][ files' # files =>
             /\ pc = "conditional-save"
             /\ ConfigDefaultSave
             /\ writes' = writes + 1 ]_vars

C7_Witness ==
    /\ pc = "ready"
    /\ writes = 1
    /\ ConfigDefaultSave
    /\ files[cwd] = JsonMarshal(ConfigDefault)

C9_AsStated ==
    \/ ConfigDefault.Msh.ID = <<>>
    \/ IsLowerHex40(ConfigDefault.Msh.ID)

\* C9, amended: the identity of the default configuration is empty, or the string
\* the persisted file stores (of any length and content), or a derived digest of
\* 40 lowercase hexadecimal characters, or a promoted -id value of exactly 40
\* characters, which need not be hexadecimal; once the digest has been derived
\* in a run the identity is exactly 40 characters long.
C9_IdentityShape ==
    /\ [](derived => Len(ConfigDefault.Msh.ID) = MshIDLen)
    /\ [][ ConfigDefault'.Msh.ID # ConfigDefault.Msh.ID =>
             \/ pc \in Terminal /\ ConfigDefault'.Msh.ID = <<>>
             \/ /\ pc = "load-default"
                /\ ConfigDefault'.Msh.ID = files[ExeDir].cfg.Msh.ID
             \/ /\ pc = "derive-identity"
                /\ IsLowerHex40(ConfigDefault'.Msh.ID)
             \/ /\ pc = "reconcile-identity"
                /\ "id" \in args.set
                /\ ConfigDefault'.Msh.ID = args.val.Msh.ID
                /\ Len(ConfigDefault'.Msh.ID) = MshIDLen ]_vars

C9_Witness ==
    /\ pc = "ready"
    /\ derived
    /\ ConfigDefault.Msh.ID = Repeat("G", MshIDLen)

\* C10: in the identity reconciliation of loadRuntime, a runtime identity that
\* differs from the default one and whose length is not 40 leaves the default
\* identity and the dirty flag as they were; one of length exactly 40 replaces the
\* default identity and sets the dirty flag; equal identities change nothing.
C10_IdentityPromotion ==
    [][ pc = "reconcile-identity" =>
          LET rid == ConfigRuntime.Msh.ID
              did == ConfigDefault.Msh.ID
          IN  /\ (rid # did /\ Len(rid) # 40) =>
                    /\ ConfigDefault' = ConfigDefault
                    /\ ConfigDefaultSave' = ConfigDefaultSave
              /\ (rid # did /\ Len(rid) = 40) =>
                    /\ ConfigDefault' = [ConfigDefault EXCEPT !.Msh.ID = rid]
                    /\ ConfigDefaultSave' = TRUE
              /\ rid = did =>
                    /\ ConfigDefault' = ConfigDefault
                    /\ ConfigDefaultSave' = ConfigDefaultSave ]_vars

C10_Witness ==
    /\ LastStep = "reconcile-identity"
    /\ ~derived
    /\ ConfigDefaultSave
    /\ ConfigRuntime.Msh.ID = Sha1Hex(OtherMachineID \o ExeDir)
    /\ ConfigDefault.Msh.ID = ConfigRuntime.Msh.ID

\* the field a flag is bound to, lines 172-188
FlagField(c, name) ==
    CASE name = "folder"       -> c.Server.Folder
      [] name = "file"         -> c.Server.FileName
      [] name = "version"      -> c.Server.Version
      [] name = "protocol"     -> c.Server.Protocol
      [] name = "msparam"      -> c.Commands.StartServerParam
      [] name = "allowkill"    -> c.Commands.StopServerAllowKill
      [] name = "id"           -> c.Msh.ID
      [] name = "d"            -> c.Msh.Debug
      [] name = "allowsuspend" -> c.Msh.AllowSuspend
      [] name = "infohibe"     -> c.Msh.InfoHibernation
      [] name = "infostar"     -> c.Msh.InfoStarting
      [] name = "notifyupd"    -> c.Msh.NotifyUpdate
      [] name = "notifymes"    -> c.Msh.NotifyMessage
      [] name = "port"         -> c.Msh.ListenPort
      [] name = "timeout"      -> c.Msh.TimeBeforeStoppingEmptyServer

\* C11: after the flags are parsed, every overridable field of the runtime
\* configuration holds the value of its flag if the flag was supplied and the
\* value of the loaded default configuration if it was omitted
C11_OverlayPrecedence ==
    [][ (pc = "overlay-args" /\ ~args.malformed) =>
          \A f \in FlagNames :
            FlagField(ConfigRuntime', f) =
              IF f \in args.set THEN FlagField(args.val, f)
              ELSE FlagField(ConfigDefault, f) ]_vars

\* one flag was supplied: its field holds the flag's value, another field the
\* default's, and the two sources differ on both
C11_Witness ==
    /\ LastStep = "overlay-args"
    /\ pc = "reconcile-identity"
    /\ args.set = {"port"}
    /\ ConfigRuntime.Msh.ListenPort = args.val.Msh.ListenPort
    /\ ConfigRuntime.Msh.ListenPort # ConfigDefault.Msh.ListenPort
    /\ ConfigRuntime.Server.FileName = ConfigDefault.Server.FileName
    /\ ConfigRuntime.Server.FileName # args.val.Server.FileName

\* C12: Save followed by load is a round trip: after a successful Save the file
\* loadDefault reads (the one beside the executable) deserializes to the saved
\* default configuration, whatever the working directory of the process
C12_SaveLoadRoundTrip ==
    (LastStep = "conditional-save" /\ pc = "ready" /\ writes = 1) =>
        /\ files[ExeDir].kind = "json"
        /\ JsonUnmarshal(files[ExeDir], ZeroConfig) = ConfigDefault

\* C13: once a run has returned nil (saving if dirty), a further run with the
\* same hardware id, executable directory, server version info and flags derives
\* the same identity, does not set the dirty flag and does not write the file
C13_RerunIsIdempotent ==
    run > 1 =>
        /\ ~ConfigDefaultSave
        /\ writes = 0
        /\ LastStep = "derive-identity" =>
               ConfigDefault.Msh.ID = Sha1Hex(HostMachineID \o ExeDir)

RECURSIVE SubstFrom(_, _, _, _)
SubstFrom(s, i, old, new) ==
    IF i > Len(s) THEN <<>>
    ELSE IF i + Len(old) - 1 <= Len(s) /\ SubSeq(s, i, i + Len(old) - 1) = old
         THEN new \o SubstFrom(s, i + Len(old), old, new)
         ELSE <<s[i]>> \o SubstFrom(s, i + 1, old, new)

\* the matches of tok in s that one pass finds
Occurrences(s, tok) == (Len(s) - Len(SubstFrom(s, 1, tok, <<>>))) \div Len(tok)

\* both tokens replaced in one pass over the template: the text of an inserted
\* value is never looked at again
RECURSIVE SubstBoth(_, _, _, _)
SubstBoth(s, i, file, param) ==
    IF i > Len(s) THEN <<>>
    ELSE IF i + Len(TokFileName) - 1 <= Len(s)
            /\ SubSeq(s, i, i + Len(TokFileName) - 1) = TokFileName
         THEN file \o SubstBoth(s, i + Len(TokFileName), file, param)
    ELSE IF i + Len(TokStartServerParam) - 1 <= Len(s)
            /\ SubSeq(s, i, i + Len(TokStartServerParam) - 1) = TokStartServerParam
         THEN param \o SubstBoth(s, i + Len(TokStartServerParam), file, param)
    ELSE <<s[i]>> \o SubstBoth(s, i + 1, file, param)

\* C15 as stated: the runtime start command is the default's template with the
\* template's occurrences of each token replaced by the runtime file name and
\* the runtime start parameters, whatever the values contain
C15_AsStated ==
    [][ (pc = "overlay-args" /\ ~args.malformed) =>
          ConfigRuntime'.Commands.StartServer =
              SubstBoth(ConfigDefault.Commands.StartServer, 1,
                        ConfigRuntime'.Server.FileName,
                        ConfigRuntime'.Commands.StartServerParam) ]_vars

\* C15, amended: the runtime start command is the template after two passes,
\* first every file name token replaced by the runtime file name, then every
\* parameter token of that result, those brought in or completed by the file
\* name included, replaced by the runtime start parameters; it is the template
\* with its own tokens replaced whenever the first pass adds no parameter token
C15_TwoPassSubstitution ==
    [][ (pc = "overlay-args" /\ ~args.malformed) =>
          LET template == ConfigDefault.Commands.StartServer
              file     == ConfigRuntime'.Server.FileName
              param    == ConfigRuntime'.Commands.StartServerParam
              first    == SubstFrom(template, 1, TokFileName, file)
              second   == SubstFrom(first, 1, TokStartServerParam, param)
          IN  /\ ConfigRuntime'.Commands.StartServer = second
              /\ Occurrences(first, TokStartServerParam)
                     = Occurrences(template, TokStartServerParam)
                 => second = SubstBoth(template, 1, file, param) ]_vars

\* the file name is a parameter token and the template names the file: the
\* start command holds the start parameters where the file name was put
C15_Witness ==
    /\ LastStep = "overlay-args"
    /\ pc = "reconcile-identity"
    /\ ConfigRuntime.Server.FileName = TokStartServerParam
    /\ Occurrences(ConfigDefault.Commands.StartServer, TokFileName) = 2
    /\ ConfigRuntime.Commands.StartServerParam # <<>>
    /\ ~Contains(ConfigRuntime.Commands.StartServer, TokStartServerParam)
    /\ ConfigRuntime.Commands.StartServer #
           SubstBoth(ConfigDefault.Commands.StartServer, 1,
                     ConfigRuntime.Server.FileName,
                     ConfigRuntime.Commands.StartServerParam)

\* C16: when the host is unsupported or loadDefault fails (executable path,
\* file read, deserialization), LoadConfig returns at once: the runtime
\* configuration, the dirty flag, the status record and the persisted file are
\* as they were, no process was launched, and no later step runs in this process
C16_FatalReturnsAtOnce ==
    [][ /\ (pc \in {"validate-host", "load-default"}
              /\ ret' \in {ErrOsSupport, ErrConfigLoad}) =>
            /\ pc' = "fatal"
            /\ ConfigRuntime' = ConfigRuntime
            /\ ConfigDefaultSave' = ConfigDefaultSave
            /\ StatsError' = StatsError
            /\ files' = files
            /\ launches' = launches
            /\ writes' = writes
        /\ pc = "fatal" => (run' = run + 1 /\ trace' = <<>>) ]_vars

\* loadDefault failed on a file that is no JSON document and nothing else ran
C16_Witness ==
    /\ pc = "fatal"
    /\ ret = ErrConfigLoad
    /\ files[ExeDir].kind = "garbage"
    /\ trace = << "validate-host", "load-default" >>
    /\ ConfigRuntime = ZeroConfig
    /\ ~ConfigDefaultSave
    /\ StatsError = StatusNil
    /\ launches = 0
    /\ writes = 0

\* the steps of a run in the order the spec gives them
StepOrder ==
    << "validate-host", "load-default", "derive-identity", "probe-version",
       "overlay-args", "reconcile-identity", "validate-folder", "validate-gate-file",
       "bootstrap-process", "validate-runtime-tool", "resolve-network", "load-icon",
       "conditional-save" >>

\* the place of each step in that order
StepIndex == [step \in StepNames |-> CHOOSE i \in 1..Len(StepOrder) : StepOrder[i] = step]

\* C17: the steps of a run are executed in the fixed forward order validate-host,
\* load-default (derive-identity, probe-version), overlay-args,
\* reconcile-identity, validate-folder, validate-gate-file (with the optional
\* launch), validate-runtime-tool, resolve-network, load-icon, conditional-save:
\* none twice, none after a later one, the launch only inside the gate check,
\* and a run that reaches ready has gone through all of them but possibly the
\* gate check
C17_ForwardOrder ==
    /\ \A i \in 1..Len(trace) : trace[i] \in StepNames
    /\ \A i \in 1..(Len(trace) - 1) : StepIndex[trace[i]] < StepIndex[trace[i + 1]]
    /\ trace # <<>> => trace[1] = "validate-host"
    /\ \A i \in 1..Len(trace) :
          trace[i] = "bootstrap-process" =>
              i > 1 /\ trace[i - 1] = "validate-gate-file"
    /\ pc = "ready" =>
          \A step \in StepNames \ {"validate-gate-file", "bootstrap-process"} :
              InTrace(step)

\* a run that went through all thirteen steps, the launch included
C17_Witness ==
    /\ pc = "ready"
    /\ trace = StepOrder
    /\ launches = 1

\* C18: after loadRuntime completes, the runtime identity equals the default
\* identity in both outcomes of the reconciliation: a healthy user id was copied
\* into the default, an unhealthy one is not used and the default's id is used
\* in its place
C18_RuntimeIdentityIsDefaultIdentity ==
    InTrace("load-icon") => ConfigRuntime.Msh.ID = ConfigDefault.Msh.ID

\* the steps of loadRuntime
RuntimeSteps ==
    { "overlay-args", "reconcile-identity", "validate-folder", "validate-gate-file",
      "bootstrap-process", "validate-runtime-tool", "resolve-network", "load-icon" }

\* C19: loadRuntime changes no field of the default configuration but the
\* identity: flags and substitution reach the runtime instance only, the
\* default's start command keeps the template it was loaded with, and a Save
\* after it writes the default's values, not the overridden or substituted ones
C19_DefaultOnlyChangesIdentity ==
    [][ /\ pc \in RuntimeSteps =>
               ConfigDefault' = [ConfigDefault EXCEPT !.Msh.ID = ConfigDefault'.Msh.ID]
        /\ (pc \in RuntimeSteps /\ pc' # "exited") =>
               ConfigDefault'.Commands.StartServer = files[ExeDir].cfg.Commands.StartServer
        /\ (pc = "conditional-save" /\ pc' = "ready" /\ writes' = writes + 1) =>
               /\ files'[cwd] = JsonMarshal(ConfigDefault)
               /\ files'[cwd].cfg.Commands.StartServer
                      = files[ExeDir].cfg.Commands.StartServer
               /\ \A f \in FlagNames \ {"id", "version", "protocol"} :
                      FlagField(files'[cwd].cfg, f) = FlagField(files[ExeDir].cfg, f) ]_vars

\* the file name was overridden by a flag and the configuration was saved: the
\* saved file has the loaded file name and the template with its tokens, the
\* runtime configuration the flag's file name and the substituted command
C19_Witness ==
    /\ pc = "ready"
    /\ writes = 1
    /\ "file" \in args.set
    /\ files[cwd].kind = "json"
    /\ files[cwd].cfg.Server.FileName = BaseConfig.Server.FileName
    /\ ConfigRuntime.Server.FileName = args.val.Server.FileName
    /\ ConfigRuntime.Server.FileName # BaseConfig.Server.FileName
    /\ Contains(files[cwd].cfg.Commands.StartServer, TokFileName)
    /\ ~Contains(ConfigRuntime.Commands.StartServer, TokFileName)

\* C20: the status record is one slot that the last failing check wins: each of
\* the checks folder, gate (with its launch), java, network either stores its
\* own status over whatever is there or leaves the slot alone, and none clears
\* it; after an unreadable eula.txt the slot holds "please accept eula" whether
\* or not the launch failed; a missing java and a failed proxy setup replace
\* any status of the folder or gate check
C20_LastFailingCheckWins ==
    [][ /\ pc = "validate-folder" =>
               StatsError' = IF serverFile' = "missing" THEN StatusServerMissing
                             ELSE StatsError
        /\ pc = "validate-gate-file" =>
               StatsError' = IF eulaErr' = "nil" /\ ~NormalizedHasToken(eulaData')
                             THEN StatusAcceptEula
                             ELSE StatsError
        /\ pc = "bootstrap-process" =>
               eulaErr = "error" /\ StatsError' = StatusAcceptEula
        /\ pc = "validate-runtime-tool" =>
               StatsError' = IF Javav' = <<>> THEN StatusJavaMissing ELSE StatsError
        /\ pc = "resolve-network" =>
               StatsError' \in {StatsError, StatusProxyFailed}
        /\ pc \in {"load-icon", "conditional-save"} => StatsError' = StatsError
        /\ (pc \in RuntimeSteps /\ StatsError # StatusNil) => StatsError' # StatusNil
        /\ StatsError' # StatusCouldNotStart ]_vars

\* eula.txt was unreadable and the server was launched; java was found and the
\* later checks left the slot alone: at ready it still asks to accept the eula
C20_Witness ==
    /\ pc = "ready"
    /\ eulaErr = "error"
    /\ launches = 1
    /\ Javav # <<>>
    /\ StatsError = StatusAcceptEula

=============================================================================
